---- MODULE Spec2Model ----
(***************************************************************************)
(* Model of github.com/icio/mkcert: Exec (the wrapper around the external  *)
(* mkcert command), its output parsers, and the two example CLIs that      *)
(* serve files over HTTPS with the certificate Exec returns.               *)
(*                                                                         *)
(* Text that the code inspects (the captured output, paths, the working    *)
(* directory) is a sequence of one-character strings, one element per      *)
(* rune; "BOOM" and "SPARK" stand for the two emoji runes of caRe.         *)
(* Text that the code only passes on (domains, -cert-file/-key-file        *)
(* values) is a plain string.                                              *)
(***************************************************************************)
EXTENDS Integers, Sequences, FiniteSets, TLC

VARIABLES
    pc,        \* position of the current Exec call: "opts" | "returned"
    p,         \* params being filled by the options (mkcert.go:92-98)
    cmd,       \* the exec.Cmd built by Exec: [built, args, dir]
    invoked,   \* TRUE iff this call reached cmd.CombinedOutput()
    proc,      \* what the external process did: [started, code, transcript]
    out,       \* the bytes CombinedOutput returned
    cert,      \* the Cert Exec returned
    err,       \* the error Exec returned
    variant,   \* which program runs: "lib" | "cli0" (part_000) | "cli1" (part_001)
    mainpc,    \* position of main
    tmpdir,    \* main's dir
    mainErr,   \* main's err
    events,    \* main's steps so far, in order
    logged,    \* what main has logged
    exitStatus,\* the status main exited with (-1: still running)
    served     \* the (certFile, keyFile) the HTTPS server was started with

vars == <<pc, p, cmd, invoked, proc, out, cert, err,
          variant, mainpc, tmpdir, mainErr, events, logged, exitStatus, served>>

execVars == <<pc, p, cmd, invoked, proc, out, cert, err>>
mainVars == <<variant, mainpc, tmpdir, mainErr, events, logged, exitStatus, served>>

-----------------------------------------------------------------------------
(* Bounds *)

\* The external process prints at most this many lines.
MaxLines == 3

-----------------------------------------------------------------------------
(* Text *)

Quote == "\""
NL == "\n"

\* caRe: local CA at "(.+?)" [BOOM SPARK]\n
caRePrefix ==
    <<"l", "o", "c", "a", "l", " ", "C", "A", " ", "a", "t", " ", "\"">>
caReMarkers == {"BOOM", "SPARK"}

\* fileRe: The certificate is at "(.+?)" and the key at "(.+?)"
fileRePrefix ==
    <<"T", "h", "e", " ", "c", "e", "r", "t", "i", "f", "i", "c", "a", "t",
      "e", " ", "i", "s", " ", "a", "t", " ", "\"">>
fileReMiddle ==
    <<"\"", " ", "a", "n", "d", " ", "t", "h", "e", " ", "k", "e", "y", " ",
      "a", "t", " ", "\"">>

notInstalled ==
    <<"n", "o", "t", " ", "i", "n", "s", "t", "a", "l", "l", "e", "d">>

\* s has lit at position i.
HasAt(s, i, lit) ==
    /\ i >= 1
    /\ i + Len(lit) - 1 <= Len(s)
    /\ s[i] = lit[1]
    /\ SubSeq(s, i, i + Len(lit) - 1) = lit

Min(S) == CHOOSE x \in S : \A y \in S : x <= y

-----------------------------------------------------------------------------
(* path/filepath on Unix, as Exec uses it *)

IsAbs(path) == Len(path) > 0 /\ path[1] = "/"

RECURSIVE Split(_)
\* The components of path between its slashes.
Split(path) ==
    IF \A n \in 1..Len(path) : path[n] # "/"
    THEN <<path>>
    ELSE LET n == Min({m \in 1..Len(path) : path[m] = "/"})
         IN  <<SubSeq(path, 1, n - 1)>> \o Split(SubSeq(path, n + 1, Len(path)))

RECURSIVE CleanComps(_, _, _)
\* Clean's walk over the components: drop "" and ".", and let ".." remove
\* the component before it (at the root, ".." is dropped).
CleanComps(comps, acc, rooted) ==
    IF comps = <<>> THEN acc
    ELSE LET c == Head(comps)
             rest == Tail(comps)
         IN  IF c = <<>> \/ c = <<".">>
             THEN CleanComps(rest, acc, rooted)
             ELSE IF c = <<".", ".">>
             THEN IF acc # <<>> /\ acc[Len(acc)] # <<".", ".">>
                  THEN CleanComps(rest, SubSeq(acc, 1, Len(acc) - 1), rooted)
                  ELSE IF rooted
                  THEN CleanComps(rest, acc, rooted)
                  ELSE CleanComps(rest, Append(acc, c), rooted)
             ELSE CleanComps(rest, Append(acc, c), rooted)

RECURSIVE JoinComps(_)
JoinComps(comps) ==
    IF comps = <<>> THEN <<>>
    ELSE IF Len(comps) = 1 THEN comps[1]
    ELSE comps[1] \o <<"/">> \o JoinComps(Tail(comps))

Clean(path) ==
    IF path = <<>> THEN <<".">>
    ELSE LET rooted == path[1] = "/"
             body == JoinComps(CleanComps(Split(path), <<>>, rooted))
         IN  IF rooted THEN <<"/">> \o body
             ELSE IF body = <<>> THEN <<".">>
             ELSE body

\* filepath.Join of two elements: empty elements are ignored, the rest are
\* joined with a slash and cleaned; all empty gives "".
Join(a, b) ==
    IF a = <<>> /\ b = <<>> THEN <<>>
    ELSE IF a = <<>> THEN Clean(b)
    ELSE IF b = <<>> THEN Clean(a)
    ELSE Clean(a \o <<"/">> \o b)

-----------------------------------------------------------------------------
(* The output parsers (mkcert.go:129-151) *)

\* `.` of a Go regexp without the s flag is any rune but a newline. The last
\* position a run of `.` starting at a can reach: the rune before the next
\* newline, or the end of the text.
DotEnd(s, a) == Min({n \in a..Len(s) : s[n] = NL} \cup {Len(s) + 1}) - 1

\* Ends k of group 2 of fileRe, when the group starts at b: one or more `.`,
\* then the closing quote.
fileReGroup2Ends(s, b) ==
    {k \in b..DotEnd(s, b) : k + 1 <= Len(s) /\ s[k + 1] = Quote}

\* Ends j of group 1 of fileRe, when the group starts at a: one or more `.`,
\* then the middle literal and a match of the rest.
fileReGroup1Ends(s, a) ==
    {j \in a..DotEnd(s, a) :
        /\ HasAt(s, j + 1, fileReMiddle)
        /\ fileReGroup2Ends(s, j + 1 + Len(fileReMiddle)) # {}}

\* fileRe.FindSubmatch: the leftmost match, each lazy group as short as the
\* rest of the pattern allows; <<>> (nil) when there is none. The (?m) flag
\* changes only ^ and $, which fileRe does not use.
fileReFindSubmatch(s) ==
    LET starts == {i \in 1..Len(s) :
                      /\ HasAt(s, i, fileRePrefix)
                      /\ fileReGroup1Ends(s, i + Len(fileRePrefix)) # {}}
    IN  IF starts = {} THEN <<>>
        ELSE LET i == Min(starts)
                 a == i + Len(fileRePrefix)
                 j == Min(fileReGroup1Ends(s, a))
                 b == j + 1 + Len(fileReMiddle)
                 k == Min(fileReGroup2Ends(s, b))
             IN  <<SubSeq(s, i, k + 1), SubSeq(s, a, j), SubSeq(s, b, k)>>

\* Ends j of group 1 of caRe, when the group starts at a: one or more `.`,
\* then quote, space, one of the two markers, newline.
caReGroup1Ends(s, a) ==
    {j \in a..DotEnd(s, a) :
        /\ j + 4 <= Len(s)
        /\ s[j + 1] = Quote
        /\ s[j + 2] = " "
        /\ s[j + 3] \in caReMarkers
        /\ s[j + 4] = NL}

caReFindSubmatch(s) ==
    LET starts == {i \in 1..Len(s) :
                      /\ HasAt(s, i, caRePrefix)
                      /\ caReGroup1Ends(s, i + Len(caRePrefix)) # {}}
    IN  IF starts = {} THEN <<>>
        ELSE LET i == Min(starts)
                 a == i + Len(caRePrefix)
                 j == Min(caReGroup1Ends(s, a))
             IN  <<SubSeq(s, i, j + 4), SubSeq(s, a, j)>>

parseCA(o) ==
    LET match == caReFindSubmatch(o)
    IN  IF Len(match) < 2 THEN <<>> ELSE match[2]

\* bytes.Index: the first position of sep in s, or -1.
Index(s, sep) ==
    LET hits == {i \in 1..(Len(s) - Len(sep) + 1) : HasAt(s, i, sep)}
    IN  IF hits = {} THEN -1 ELSE Min(hits)

\* bytes.Contains
Contains(s, sep) == Index(s, sep) # -1

parseTrustedNegated(o) == Contains(o, notInstalled)

parseTrusted(o) == ~Contains(o, notInstalled)

parseFilesLast(o) ==
    LET starts == {i \in 1..Len(o) :
                      /\ HasAt(o, i, fileRePrefix)
                      /\ fileReGroup1Ends(o, i + Len(fileRePrefix)) # {}}
    IN  IF starts = {} THEN [cert |-> <<>>, key |-> <<>>]
        ELSE LET i == CHOOSE x \in starts : \A y \in starts : x >= y
                 a == i + Len(fileRePrefix)
                 j == Min(fileReGroup1Ends(o, a))
                 b == j + 1 + Len(fileReMiddle)
                 k == Min(fileReGroup2Ends(o, b))
             IN  [cert |-> SubSeq(o, a, j), key |-> SubSeq(o, b, k)]

parseFiles(o) ==
    LET match == fileReFindSubmatch(o)
    IN  IF Len(match) < 3
        THEN [cert |-> <<>>, key |-> <<>>]
        ELSE [cert |-> match[2], key |-> match[3]]

-----------------------------------------------------------------------------
(* Errors *)

\* An error value: its dynamic type, the parts of its Error() text, the
\* error its Unwrap method returns (NoErr when it has none), and, for an
\* *exec.ExitError, its Stderr field.
NoErr == [kind |-> "nil"]

IsErr(e) == e.kind # "nil"

ErrNoDomains ==
    [kind |-> "errorString", text |-> <<"mkcert: no domains specified">>,
     wraps |-> NoErr, stderr |-> <<>>]

\* fmt.Errorf("mkcert: %s", e): the verb is %s, not %w, so the result holds
\* e's text and has no Unwrap method.
ErrorfProcess(e) ==
    [kind |-> "errorString", text |-> <<"mkcert: ">> \o e.text,
     wraps |-> NoErr, stderr |-> <<>>]

\* fmt.Errorf("mkcert: CA at %s not trusted, run mkcert -install", caRoot)
ErrorfNotTrusted(caRoot) ==
    [kind |-> "errorString",
     text |-> <<"mkcert: CA at ">> \o caRoot
                  \o <<" not trusted, run mkcert -install">>,
     wraps |-> NoErr, stderr |-> <<>>]

RECURSIVE AsExitError(_)
\* errors.As(e, &perr) with perr *exec.ExitError: the first *exec.ExitError
\* on e's Unwrap chain, NoErr when there is none.
AsExitError(e) ==
    IF ~IsErr(e) THEN NoErr
    ELSE IF e.kind = "ExitError" THEN e
    ELSE AsExitError(e.wraps)

-----------------------------------------------------------------------------
(* The external mkcert process *)

\* The lines the process may print. A path is non-empty and holds neither a
\* quote nor a newline.
CALine == [kind |-> "ca", root |-> <<"/", "c">>]
DistrustLine == [kind |-> "distrust"]
FileLineA == [kind |-> "file", cert |-> <<".", "/", "a">>, key |-> <<"/", "k">>]
FileLineB == [kind |-> "file", cert |-> <<"/", "b">>, key |-> <<"k">>]
BrokenLine == [kind |-> "broken"]

LineSet == {CALine, DistrustLine, FileLineA, FileLineB, BrokenLine}

\* The text of one line.
\*   ca:       local CA at "<root>" SPARK
\*   distrust: is not installed!
\*   file:     The certificate is at "<cert>" and the key at "<key>"
\*   broken:   The certificate is at "x"        (a file line cut short)
Render(line) ==
    CASE line.kind = "ca" ->
           caRePrefix \o line.root \o <<Quote, " ", "SPARK", NL>>
      [] line.kind = "distrust" ->
           <<"i", "s", " ">> \o notInstalled \o <<"!", NL>>
      [] line.kind = "file" ->
           fileRePrefix \o line.cert \o fileReMiddle \o line.key
               \o <<Quote, NL>>
      [] line.kind = "broken" ->
           fileRePrefix \o <<"x", Quote, NL>>

Transcripts == UNION {[1..n -> LineSet] : n \in 0..MaxLines}

RECURSIVE Output(_)
\* What the process wrote to stdout and stderr together.
Output(t) == IF t = <<>> THEN <<>> ELSE Render(Head(t)) \o Output(Tail(t))

ExitCodes == {0, 1, 2}

NoProc == [started |-> FALSE, code |-> 0, transcript |-> <<>>]

\* Either the process could not be started (mkcert not on the PATH, the
\* working directory missing), or it ran, printed and exited. Exec drops the
\* output of a run that exits non-zero, so such runs print at most one line.
Procs ==
    {NoProc}
    \cup {[started |-> TRUE, code |-> 0, transcript |-> t] : t \in Transcripts}
    \cup {[started |-> TRUE, code |-> c, transcript |-> t] :
             c \in ExitCodes \ {0}, t \in {u \in Transcripts : Len(u) <= 1}}

StartError ==
    [kind |-> "exec.Error", text |-> <<"exec: mkcert: not started">>,
     wraps |-> NoErr, stderr |-> <<>>]

\* The *exec.ExitError of a run that exited with code c. CombinedOutput
\* collects stderr itself, so the Stderr field stays empty.
ExitError(c) ==
    [kind |-> "ExitError",
     text |-> <<"exit status ", IF c = 1 THEN "1" ELSE "2">>,
     wraps |-> NoErr, stderr |-> <<>>]

\* cmd.CombinedOutput()
CombinedOutput(pr) ==
    IF ~pr.started THEN [out |-> <<>>, err |-> StartError]
    ELSE [out |-> Output(pr.transcript),
          err |-> IF pr.code = 0 THEN NoErr ELSE ExitError(pr.code)]

-----------------------------------------------------------------------------
(* Options and Exec (mkcert.go:46-127) *)

ZeroParams ==
    [dir |-> <<>>, certFile |-> "", keyFile |-> "", domains |-> <<>>,
     requireTrust |-> FALSE]

ZeroCert ==
    [CARoot |-> <<>>, Trusted |-> FALSE, Domains |-> <<>>, File |-> <<>>,
     KeyFile |-> <<>>]

NoCmd == [built |-> FALSE, args |-> <<>>, dir |-> <<>>]

Domains(domains) == [name |-> "Domains", value |-> domains]
RequireTrusted(req) == [name |-> "RequireTrusted", value |-> req]
Directory(path) == [name |-> "Directory", value |-> path]
CertFile(path) == [name |-> "CertFile", value |-> path]
KeyFile(path) == [name |-> "KeyFile", value |-> path]

\* o(&p)
Apply(o, q) ==
    CASE o.name = "Domains" -> [q EXCEPT !.domains = o.value]
      [] o.name = "RequireTrusted" -> [q EXCEPT !.requireTrust = o.value]
      [] o.name = "Directory" -> [q EXCEPT !.dir = o.value]
      [] o.name = "CertFile" -> [q EXCEPT !.certFile = o.value]
      [] o.name = "KeyFile" -> [q EXCEPT !.keyFile = o.value]

RECURSIVE ApplyAll(_, _)
\* for _, o := range opts { o(&p) }
ApplyAll(opts, q) ==
    IF opts = <<>> THEN q ELSE ApplyAll(Tail(opts), Apply(Head(opts), q))

\* The options a caller may pass.
OptSet ==
    {Domains(d) : d \in {<<>>, <<"localhost">>, <<"b.test", "a.test">>}}
    \cup {RequireTrusted(b) : b \in BOOLEAN}
    \cup {Directory(d) : d \in {<<>>, <<"/", "t">>, <<"d", "/">>}}
    \cup {CertFile(f) : f \in {"", "c.pem"}}
    \cup {KeyFile(f) : f \in {"", "k.pem"}}

NoDomainsNever(q) == Len(q.domains) < 0

\* len(p.domains) == 0
NoDomains(q) == Len(q.domains) = 0

BuildArgsKeyFirst(q) ==
    (IF q.keyFile # "" THEN <<"-key-file", q.keyFile>> ELSE <<>>)
        \o (IF q.certFile # "" THEN <<"-cert-file", q.certFile>> ELSE <<>>)
        \o q.domains

\* args, as handed to exec.Command("mkcert", ...)
BuildArgs(q) ==
    LET args0 == <<>>
        args1 == IF q.certFile # ""
                 THEN args0 \o <<"-cert-file", q.certFile>> ELSE args0
        args2 == IF q.keyFile # ""
                 THEN args1 \o <<"-key-file", q.keyFile>> ELSE args1
    IN  args2 \o q.domains

BuildCmd(q) == [built |-> TRUE, args |-> BuildArgs(q), dir |-> q.dir]

ResolvePathAlways(dir, file) == Join(dir, file)

ResolvePathSkipEmpty(dir, file) ==
    IF file # <<>> /\ ~IsAbs(file) THEN Join(dir, file) ELSE file

\* if !filepath.IsAbs(file) { file = filepath.Join(dir, file) }
ResolvePath(dir, file) == IF ~IsAbs(file) THEN Join(dir, file) ELSE file

\* The Cert built from the output, then its paths resolved against cmd.Dir.
ParseCert(q, o) ==
    LET files == parseFiles(o)
    IN  [CARoot |-> parseCA(o), Trusted |-> parseTrusted(o),
         Domains |-> q.domains, File |-> files.cert, KeyFile |-> files.key]

ResolveCert(c, dir) ==
    IF dir # <<>>
    THEN [c EXCEPT !.File = ResolvePath(dir, c.File),
                   !.KeyFile = ResolvePath(dir, c.KeyFile)]
    ELSE c

TrustErrorAlways(c, q, e) ==
    IF ~c.Trusted THEN ErrorfNotTrusted(c.CARoot) ELSE e

\* if !cert.Trusted && p.requireTrust { err = fmt.Errorf(...) }
TrustError(c, q, e) ==
    IF ~c.Trusted /\ q.requireTrust THEN ErrorfNotTrusted(c.CARoot) ELSE e

ReturnZeroOnError(crt, e) ==
    [cert |-> IF IsErr(e) THEN ZeroCert ELSE crt, err |-> e]

\* return cert, err
Return(crt, e) == [cert |-> crt, err |-> e]

\* One call of Exec with params q (the options already applied), when the
\* external process behaves as pr: what Exec returns, and what it did.
ExecReturn(q, pr) ==
    IF NoDomains(q)
    THEN [cert |-> ZeroCert, err |-> ErrNoDomains, cmd |-> NoCmd,
          invoked |-> FALSE, proc |-> NoProc, out |-> <<>>]
    ELSE LET c == BuildCmd(q)
             r == CombinedOutput(pr)
         IN  IF IsErr(r.err)
             THEN [cert |-> ZeroCert, err |-> ErrorfProcess(r.err), cmd |-> c,
                   invoked |-> TRUE, proc |-> pr, out |-> r.out]
             ELSE LET crt == ResolveCert(ParseCert(q, r.out), c.dir)
                      ret == Return(crt, TrustError(crt, q, r.err))
                  IN  [cert |-> ret.cert, err |-> ret.err,
                       cmd |-> c, invoked |-> TRUE, proc |-> pr,
                       out |-> r.out]

-----------------------------------------------------------------------------
(* Callers of the package: Exec with any options *)

Init ==
    /\ pc = "opts"
    /\ p = ZeroParams
    /\ cmd = NoCmd
    /\ invoked = FALSE
    /\ proc = NoProc
    /\ out = <<>>
    /\ cert = ZeroCert
    /\ err = NoErr
    /\ variant = "lib"
    /\ mainpc = "none"
    /\ tmpdir = <<>>
    /\ mainErr = NoErr
    /\ events = <<>>
    /\ logged = <<>>
    /\ exitStatus = -1
    /\ served = <<>>

\* One turn of Exec's loop over its options: o(&p).
ApplyOpt(o) ==
    /\ pc = "opts"
    /\ p' = Apply(o, p)
    /\ UNCHANGED <<pc, cmd, invoked, proc, out, cert, err>>
    /\ UNCHANGED mainVars

\* The rest of Exec, from the domain check to its return.
Exec(pr) ==
    /\ pc = "opts"
    /\ LET r == ExecReturn(p, pr)
       IN  /\ cert' = r.cert
           /\ err' = r.err
           /\ cmd' = r.cmd
           /\ invoked' = r.invoked
           /\ proc' = r.proc
           /\ out' = r.out
    /\ pc' = "returned"
    /\ UNCHANGED p
    /\ UNCHANGED mainVars

\* The caller calls Exec again: var p params.
NewCall ==
    /\ pc = "returned"
    /\ pc' = "opts"
    /\ p' = ZeroParams
    /\ cmd' = NoCmd
    /\ invoked' = FALSE
    /\ proc' = NoProc
    /\ out' = <<>>
    /\ cert' = ZeroCert
    /\ err' = NoErr
    /\ UNCHANGED mainVars

Next ==
    \/ \E o \in OptSet : ApplyOpt(o)
    \/ \E pr \in Procs : Exec(pr)
    \/ NewCall

Spec == Init /\ [][Next]_vars

-----------------------------------------------------------------------------
(* The two example programs (part_000, part_001) *)

\* The directories ioutil.TempDir("", "mkcert") may create.
TempDirs == {<<"/", "t">>, <<"/", "u">>}

TempDirError ==
    [kind |-> "PathError", text |-> <<"mkdir: failed">>, wraps |-> NoErr,
     stderr |-> <<>>]

\* http.ListenAndServeTLS returns only with an error.
ServeError ==
    [kind |-> "OpError", text |-> <<"listen: failed">>, wraps |-> NoErr,
     stderr |-> <<>>]

\* The options both programs pass to Exec.
MainOpts(dir) ==
    <<Domains(<<"localhost">>), RequireTrusted(TRUE), Directory(dir)>>

LogFatal(e) == <<[call |-> "log.Fatal", err |-> e]>>

\* What a program logs for a non-nil error of Exec. part_000 prints it and,
\* when an *exec.ExitError is on its chain, that error's Stderr; part_001
\* calls log.Fatal.
LogExecError(v, e) ==
    IF v = "cli0"
    THEN <<[call |-> "log.Println", err |-> e]>>
         \o (IF IsErr(AsExitError(e))
             THEN <<[call |-> "log.Println stderr", err |-> AsExitError(e)]>>
             ELSE <<>>)
    ELSE LogFatal(e)

ServeArgsSwapped(c) == <<c.KeyFile, c.File>>

\* The certFile and keyFile arguments of http.ListenAndServeTLS.
ServeArgs(c) == <<c.File, c.KeyFile>>

InitCLI ==
    /\ pc = "opts"
    /\ p = ZeroParams
    /\ cmd = NoCmd
    /\ invoked = FALSE
    /\ proc = NoProc
    /\ out = <<>>
    /\ cert = ZeroCert
    /\ err = NoErr
    /\ variant \in {"cli0", "cli1"}
    /\ mainpc = "tempdir"
    /\ tmpdir = <<>>
    /\ mainErr = NoErr
    /\ events = <<>>
    /\ logged = <<>>
    /\ exitStatus = -1
    /\ served = <<>>

\* dir, err := ioutil.TempDir("", "mkcert"), and it succeeds.
MainTempDir(d) ==
    /\ mainpc = "tempdir"
    /\ tmpdir' = d
    /\ events' = Append(events, "tempdir")
    /\ mainpc' = "exec"
    /\ UNCHANGED <<variant, mainErr, logged, exitStatus, served>>
    /\ UNCHANGED execVars

\* ioutil.TempDir fails: log.Fatal(err).
MainTempDirFails ==
    /\ mainpc = "tempdir"
    /\ mainErr' = TempDirError
    /\ events' = Append(events, "tempdir")
    /\ logged' = logged \o LogFatal(TempDirError)
    /\ exitStatus' = 1
    /\ mainpc' = "exited"
    /\ UNCHANGED <<variant, tmpdir, served>>
    /\ UNCHANGED execVars

\* cert, err := mkcert.Exec(...) and the check of err that follows.
MainExec(pr) ==
    /\ mainpc = "exec"
    /\ LET q == ApplyAll(MainOpts(tmpdir), ZeroParams)
           r == ExecReturn(q, pr)
       IN  /\ p' = q
           /\ cert' = r.cert
           /\ err' = r.err
           /\ cmd' = r.cmd
           /\ invoked' = r.invoked
           /\ proc' = r.proc
           /\ out' = r.out
           /\ pc' = "returned"
           /\ mainErr' = r.err
           /\ events' = Append(events, "exec")
           /\ IF IsErr(r.err)
              THEN /\ logged' = logged \o LogExecError(variant, r.err)
                   /\ exitStatus' = 1
                   /\ mainpc' = "exited"
              ELSE /\ logged' = logged \o
                          <<[call |-> "log.Printf", err |-> NoErr]>>
                   /\ exitStatus' = exitStatus
                   /\ mainpc' = "serve"
    /\ UNCHANGED <<variant, tmpdir, served>>

\* http.ListenAndServeTLS(*bind, cert.File, cert.KeyFile, h) starts serving.
MainServe ==
    /\ mainpc = "serve"
    /\ served' = ServeArgs(cert)
    /\ events' = Append(events, "serve")
    /\ mainpc' = "serving"
    /\ UNCHANGED <<variant, tmpdir, mainErr, logged, exitStatus>>
    /\ UNCHANGED execVars

\* ListenAndServeTLS returns: log.Fatal of its error.
MainServeReturns ==
    /\ mainpc = "serving"
    /\ mainErr' = ServeError
    /\ logged' = logged \o LogFatal(ServeError)
    /\ exitStatus' = 1
    /\ mainpc' = "exited"
    /\ UNCHANGED <<variant, tmpdir, events, served>>
    /\ UNCHANGED execVars

NextCLI ==
    \/ \E d \in TempDirs : MainTempDir(d)
    \/ MainTempDirFails
    \/ \E pr \in Procs : MainExec(pr)
    \/ MainServe
    \/ MainServeReturns

SpecCLI == InitCLI /\ [][NextCLI]_vars

-----------------------------------------------------------------------------
(* Properties *)

\* The Exec call has returned.
Returned == pc = "returned"

\* The call ran the external process, which exited with status zero.
Succeeded == Returned /\ invoked /\ proc.started /\ proc.code = 0

\* The call ran the external process, which exited with a non-zero status.
ExitedNonZero == Returned /\ invoked /\ proc.started /\ proc.code # 0

\* The lines of the process's transcript of one kind, in order.
LinesOf(kind) == SelectSeq(proc.transcript, LAMBDA l : l.kind = kind)

HasFileLine == LinesOf("file") # <<>>
FirstFileLine == LinesOf("file")[1]
HasCALine == LinesOf("ca") # <<>>
HasDistrustLine == LinesOf("distrust") # <<>>

\* The captured output holds lit somewhere.
OutHolds(lit) == \E i \in 1..Len(out) : HasAt(out, i, lit)

\* A path of the transcript as the caller should see it.
Expected(dir, path) ==
    IF dir = <<>> THEN path
    ELSE IF path[1] = "/" THEN path
    ELSE Join(dir, path)

\* C1: whatever the options, when the resulting domain list is empty Exec
\* returns the zero Cert with ErrNoDomains, and neither builds nor runs the
\* external command.
C1_EmptyDomainsNoProcess ==
    (Returned /\ Len(p.domains) = 0) =>
        /\ cert = ZeroCert
        /\ err = ErrNoDomains
        /\ ~invoked
        /\ ~cmd.built
        /\ ~proc.started

\* An empty domain list together with every other option set.
C1_Witness ==
    /\ Returned
    /\ p.domains = <<>>
    /\ p.requireTrust
    /\ p.dir # <<>>
    /\ p.certFile # ""
    /\ p.keyFile # ""
    /\ err = ErrNoDomains

\* C2: with RequireTrusted(true), a run that exits zero and whose output
\* holds "not installed" and a file line returns a non-nil error together
\* with a Cert that is not the zero Cert: Trusted is false, and File and
\* KeyFile are the file line's paths (resolved against the working
\* directory when one is set), both non-empty.
C2_DistrustReturnsCertAndError ==
    (Succeeded /\ p.requireTrust /\ OutHolds(notInstalled) /\ HasFileLine) =>
        /\ IsErr(err)
        /\ cert # ZeroCert
        /\ cert.Trusted = FALSE
        /\ cert.File = Expected(p.dir, FirstFileLine.cert)
        /\ cert.KeyFile = Expected(p.dir, FirstFileLine.key)
        /\ cert.File # <<>>
        /\ cert.KeyFile # <<>>

\* Trust required, a file line and then the distrust line.
C2_Witness ==
    /\ Succeeded
    /\ p.requireTrust
    /\ HasFileLine
    /\ HasDistrustLine
    /\ IsErr(err)
    /\ cert.File = <<".", "/", "a">>
    /\ cert.KeyFile = <<"/", "k">>

\* C3: when the external process exits non-zero, the error Exec returns has
\* the *exec.ExitError on its Unwrap chain (errors.As finds it), and that
\* error carries the text the process wrote.
C3_ProcessFailureWrapped ==
    ExitedNonZero =>
        /\ IsErr(err)
        /\ IsErr(AsExitError(err))
        /\ AsExitError(err).stderr = Output(proc.transcript)

\* C4: after a run that exits zero and prints a file line, File and KeyFile
\* are, each on its own: with a working directory, the path unchanged when
\* it is absolute and the join of directory and path when it is relative;
\* with no working directory, the path as printed.
C4_PathsResolvedAgainstDirectory ==
    (Succeeded /\ HasFileLine) =>
        LET f == FirstFileLine
        IN  /\ (p.dir # <<>> /\ f.cert[1] = "/") => cert.File = f.cert
            /\ (p.dir # <<>> /\ f.cert[1] # "/") =>
                   cert.File = Join(p.dir, f.cert)
            /\ (p.dir # <<>> /\ f.key[1] = "/") => cert.KeyFile = f.key
            /\ (p.dir # <<>> /\ f.key[1] # "/") =>
                   cert.KeyFile = Join(p.dir, f.key)
            /\ p.dir = <<>> => (cert.File = f.cert /\ cert.KeyFile = f.key)

\* Directory /t, a relative certificate path and an absolute key path: the
\* first is joined (and cleaned), the second is kept.
C4_Witness ==
    /\ Succeeded
    /\ p.dir = <<"/", "t">>
    /\ HasFileLine
    /\ FirstFileLine = FileLineA
    /\ cert.File = <<"/", "t", "/", "a">>
    /\ cert.KeyFile = <<"/", "k">>

\* C5: after a run that exits zero, Trusted is false exactly when the output
\* holds "not installed" somewhere, which is exactly when the process printed
\* its distrust line, wherever that line stands among the others and
\* whatever the options.
C5_TrustedIffNotInstalledAbsent ==
    Succeeded =>
        /\ (cert.Trusted = FALSE) <=> OutHolds(notInstalled)
        /\ (cert.Trusted = FALSE) <=> HasDistrustLine

\* The distrust line last, after a file line, with no CA line.
C5_Witness ==
    /\ Succeeded
    /\ Len(proc.transcript) = 3
    /\ proc.transcript[1].kind = "file"
    /\ proc.transcript[3].kind = "distrust"
    /\ ~HasCALine
    /\ cert.Trusted = FALSE
    /\ ~p.requireTrust

\* C6: with no working directory, after a run that exits zero and prints a
\* file line, File and KeyFile are the two quoted paths of the first file
\* line of the output, and Domains is the caller's domain list.
C6_FirstFileLineParsed ==
    (Succeeded /\ HasFileLine /\ p.dir = <<>>) =>
        /\ cert.File = FirstFileLine.cert
        /\ cert.KeyFile = FirstFileLine.key
        /\ cert.Domains = p.domains
        /\ Len(p.domains) > 0

\* A file line cut short, then two different file lines; two domains.
C6_Witness ==
    /\ Succeeded
    /\ p.dir = <<>>
    /\ proc.transcript = <<BrokenLine, FileLineB, FileLineA>>
    /\ cert.File = <<"/", "b">>
    /\ cert.KeyFile = <<"k">>
    /\ cert.Domains = <<"b.test", "a.test">>

Flag(present) == IF present THEN 2 ELSE 0

\* C7: the arguments of the command are -cert-file and its path iff
\* certFile is non-empty, then -key-file and its path iff keyFile is
\* non-empty, then the domains in the caller's order, and nothing else; the
\* command's directory is the Directory option's value.
C7_ArgumentList ==
    (Returned /\ invoked) =>
        LET c == Flag(p.certFile # "")
            k == Flag(p.keyFile # "")
            n == Len(p.domains)
        IN  /\ cmd.built
            /\ Len(cmd.args) = c + k + n
            /\ c = 2 => (cmd.args[1] = "-cert-file" /\ cmd.args[2] = p.certFile)
            /\ k = 2 => (cmd.args[c + 1] = "-key-file"
                          /\ cmd.args[c + 2] = p.keyFile)
            /\ \A i \in 1..n : cmd.args[c + k + i] = p.domains[i]
            /\ cmd.dir = p.dir

\* Both flags, two domains and a directory.
C7_Witness ==
    /\ Returned
    /\ invoked
    /\ cmd.args = <<"-cert-file", "c.pem", "-key-file", "k.pem",
                    "b.test", "a.test">>
    /\ cmd.dir = <<"/", "t">>

\* C8 as stated: the error is non-nil exactly when the domain list is empty,
\* or the process exited non-zero, or it exited zero, printed its distrust
\* line and trust was required.
C8_ExactlyThreeErrorCases ==
    Returned =>
        (IsErr(err) <=>
            \/ Len(p.domains) = 0
            \/ ExitedNonZero
            \/ (Succeeded /\ HasDistrustLine /\ p.requireTrust))

\* C8 amended: the error is non-nil exactly when the domain list is empty,
\* or CombinedOutput returned an error (the process could not be started, or
\* it exited non-zero), or the process exited zero, printed its distrust
\* line and trust was required. A run that exits zero without a CA line has
\* an empty CARoot.
C8_ExactlyFourErrorCases ==
    Returned =>
        /\ IsErr(err) <=>
              \/ Len(p.domains) = 0
              \/ (invoked /\ ~proc.started)
              \/ ExitedNonZero
              \/ (Succeeded /\ HasDistrustLine /\ p.requireTrust)
        /\ (Succeeded /\ ~HasCALine) => cert.CARoot = <<>>
        /\ (Succeeded /\ HasCALine) => cert.CARoot = LinesOf("ca")[1].root

\* A run that exits zero with neither a CA line nor a file line, distrusted,
\* trust not required: no error.
C8_Witness ==
    /\ Succeeded
    /\ ~HasCALine
    /\ ~HasFileLine
    /\ HasDistrustLine
    /\ ~p.requireTrust
    /\ ~IsErr(err)
    /\ cert.CARoot = <<>>

\* C9: main's steps are, in order, the temp directory, Exec, the server. The
\* server is started only after Exec returned a nil error, with that
\* result's File and KeyFile. When the temp directory cannot be created or
\* Exec returns an error, main has logged that error and exited with a
\* non-zero status, and the server was never started.
C9_ServeOnlyAfterNilError ==
    /\ \E n \in 0..3 : events = SubSeq(<<"tempdir", "exec", "serve">>, 1, n)
    /\ (mainpc = "serving" \/ served # <<>> \/ Len(events) = 3) =>
          /\ Returned
          /\ ~IsErr(err)
          /\ events = <<"tempdir", "exec", "serve">>
          /\ served = <<cert.File, cert.KeyFile>>
    /\ (IsErr(err) \/ mainErr.kind = "PathError") =>
          /\ mainpc = "exited"
          /\ exitStatus > 0
          /\ served = <<>>
          /\ Len(events) < 3
          /\ \E i \in 1..Len(logged) : logged[i].err = mainErr
          /\ IsErr(err) => mainErr = err

\* The server of part_000 runs with the paths Exec returned.
C9_Witness ==
    /\ variant = "cli0"
    /\ mainpc = "serving"
    /\ served = <<<<"/", "t", "/", "a">>, <<"/", "k">>>>
    /\ cert.Trusted

\* C10: with a working directory set, a run that exits zero without a file
\* line gives File and KeyFile both equal to the cleaned working directory,
\* not the empty string. A result with a nil error has an empty File or
\* KeyFile only when no working directory was set and there was no file
\* line.
C10_NoFileLineYieldsDirectory ==
    /\ (Succeeded /\ ~HasFileLine /\ p.dir # <<>>) =>
          /\ cert.File = Clean(p.dir)
          /\ cert.KeyFile = Clean(p.dir)
          /\ cert.File # <<>>
    /\ (Returned /\ ~IsErr(err) /\ (cert.File = <<>> \/ cert.KeyFile = <<>>)) =>
          /\ p.dir = <<>>
          /\ ~HasFileLine

\* Directory d/ and only a file line cut short: both paths are d.
C10_Witness ==
    /\ Succeeded
    /\ p.dir = <<"d", "/">>
    /\ proc.transcript = <<BrokenLine>>
    /\ cert.File = <<"d">>
    /\ cert.KeyFile = <<"d">>
    /\ ~IsErr(err)

====
